---- MODULE Spec2Model ----
(***************************************************************************)
(* Model of the Button component (src/src/components/Button/Button.tsx)    *)
(* and of the host that renders it and dispatches click events to it, as   *)
(* exercised by the component's test suite and Storybook stories.          *)
(*                                                                         *)
(* Strings are sequences of chunks: a chunk is either one whitespace       *)
(* character (" ") or a whitespace-free run of characters.  Template       *)
(* literals concatenate chunk sequences, String.prototype.trim strips      *)
(* whitespace chunks at both ends, and a class attribute is read by the    *)
(* DOM as the whitespace-separated tokens of the string.                   *)
(*                                                                         *)
(* An optional value (a prop that may be undefined) is the empty set when  *)
(* it is undefined and the singleton {v} when it is v.                     *)
(***************************************************************************)
EXTENDS Integers, Sequences, FiniteSets, TLC

VARIABLES
    props,           \* the props object of the latest (or pending) render
    out,             \* {} before the first render, else {the rendered element}
    mounted,         \* {} before the first render, else {[props, out]} of it
    events,          \* click events dispatched to the element since its render
    calls,           \* invocations of the caller's onClick since that render
    hostErrors,      \* errors that reached the host's event boundary since then
    between,         \* what came between the first render and the latest one
    buttonVariants,  \* the module-level variant table
    buttonSizes,     \* the module-level size table
    NPM_TOKEN,       \* process.env.NPM_TOKEN when a release config is loaded
    configFile,      \* which release config file is being loaded
    pc,              \* the next statement of that file
    plugins,         \* its `plugins` array
    exported,        \* {} until it sets module.exports, then {module.exports}
    classes,         \* the argument list of a call of cn
    result           \* {} until cn returns, then {the string it returns}

buttonVars == <<props, out, mounted, events, calls, hostErrors, between, buttonVariants, buttonSizes>>
releaseVars == <<NPM_TOKEN, configFile, pc, plugins, exported>>
cnVars == <<classes, result>>

vars == <<buttonVars, releaseVars, cnVars>>

----------------------------------------------------------------------------
(* Bounds *)

MaxClassLen == 3     \* className strings have at most this many chunks
MaxEvents == 2       \* click events dispatched to one rendered element
MaxTokenLen == 3     \* NPM_TOKEN values have at most this many characters
MaxArgs == 3         \* cn is called with at most this many arguments

----------------------------------------------------------------------------
(* Option values and strings *)

Undefined == {}
Some(v) == {v}
Val(opt) == CHOOSE v \in opt : TRUE

\* a destructuring default: `x = d` takes d exactly when x is undefined
Default(opt, d) == IF opt = Undefined THEN d ELSE Val(opt)

SP == " "
IsSpace(c) == c = SP

RECURSIVE TrimStart(_)
TrimStart(s) ==
    IF s = <<>> THEN <<>>
    ELSE IF IsSpace(Head(s)) THEN TrimStart(Tail(s)) ELSE s

RECURSIVE TrimEnd(_)
TrimEnd(s) ==
    IF s = <<>> THEN <<>>
    ELSE IF IsSpace(s[Len(s)]) THEN TrimEnd(SubSeq(s, 1, Len(s) - 1)) ELSE s

\* a trim that is left out: the string as it is
NoTrim(s) == s

\* String.prototype.trim
Trim(s) == TrimEnd(TrimStart(s))

\* the class tokens of a class attribute string (DOMTokenList): the maximal
\* whitespace-free runs, in order; each token is the sequence of its chunks
RECURSIVE TokensFrom(_, _)
TokensFrom(s, cur) ==
    IF s = <<>> THEN (IF cur = <<>> THEN <<>> ELSE <<cur>>)
    ELSE IF IsSpace(Head(s))
         THEN (IF cur = <<>> THEN <<>> ELSE <<cur>>) \o TokensFrom(Tail(s), <<>>)
         ELSE TokensFrom(Tail(s), Append(cur, Head(s)))

Tokens(s) == TokensFrom(s, <<>>)

Range(s) == {s[i] : i \in DOMAIN s}

\* the string whose words are ws, separated by single spaces
RECURSIVE Words(_)
Words(ws) ==
    IF ws = <<>> THEN <<>>
    ELSE IF Len(ws) = 1 THEN <<ws[1]>>
    ELSE <<ws[1], SP>> \o Words(Tail(ws))

----------------------------------------------------------------------------
(* Button.tsx: the tables *)

VariantKind == {"primary", "secondary", "destructive", "outline", "ghost"}
SizeKind == {"small", "medium", "large"}

\* ghost given the fragment of outline
VariantTableAliased ==
    [primary |-> Words(<<"bg-blue-600", "text-white", "hover:bg-blue-700", "focus:ring-blue-500">>),
     secondary |-> Words(<<"bg-gray-600", "text-white", "hover:bg-gray-700", "focus:ring-gray-500">>),
     destructive |-> Words(<<"bg-red-600", "text-white", "hover:bg-red-700", "focus:ring-red-500">>),
     outline |-> Words(<<"border-2", "border-gray-300", "text-gray-700", "hover:bg-gray-50", "focus:ring-gray-500">>),
     ghost |-> Words(<<"border-2", "border-gray-300", "text-gray-700", "hover:bg-gray-50", "focus:ring-gray-500">>)]

VariantTable ==
    [primary |-> Words(<<"bg-blue-600", "text-white", "hover:bg-blue-700", "focus:ring-blue-500">>),
     secondary |-> Words(<<"bg-gray-600", "text-white", "hover:bg-gray-700", "focus:ring-gray-500">>),
     destructive |-> Words(<<"bg-red-600", "text-white", "hover:bg-red-700", "focus:ring-red-500">>),
     outline |-> Words(<<"border-2", "border-gray-300", "text-gray-700", "hover:bg-gray-50", "focus:ring-gray-500">>),
     ghost |-> Words(<<"text-gray-700", "hover:bg-gray-100", "focus:ring-gray-500">>)]

SizeTable ==
    [small |-> Words(<<"px-3", "py-1.5", "text-sm">>),
     medium |-> Words(<<"px-4", "py-2", "text-base">>),
     large |-> Words(<<"px-6", "py-3", "text-lg">>)]

baseClasses ==
    Words(<<"inline-flex", "items-center", "justify-center", "font-medium", "rounded-md",
            "transition-colors", "focus:outline-none", "focus:ring-2", "focus:ring-offset-2",
            "disabled:opacity-50", "disabled:pointer-events-none">>)

\* what every object literal inherits from Object.prototype, as the text a
\* template literal prints for it
ObjectPrototype ==
    [constructor |-> Words(<<"function", "Object()", "{", "[native", "code]", "}">>)]

\* a property read `table[key]`: the object's own entry, else the inherited
\* one, else undefined
Lookup(table, key) ==
    IF key \in DOMAIN table THEN Some(table[key])
    ELSE IF key \in DOMAIN ObjectPrototype THEN Some(ObjectPrototype[key])
    ELSE Undefined

\* `${x}` in a template literal: undefined prints as the word "undefined"
ToStr(opt) == IF opt = Undefined THEN <<"undefined">> ELSE Val(opt)

----------------------------------------------------------------------------
(* Button.tsx: the component *)

PropKeys == {"variant", "size", "isLoading", "disabled", "className", "children",
             "onClick", "data-testid"}

\* the keys named in the parameter destructuring; the others go to `...props`
Destructured == {"variant", "size", "isLoading", "disabled", "className", "children"}

variantOf(p) == Default(p["variant"], "primary")
sizeOf(p) == Default(p["size"], "medium")
isLoadingOf(p) == Default(p["isLoading"], FALSE)
classNameOf(p) == Default(p["className"], <<>>)

\* an unknown variant given the primary fragment
variantClassesFallback(p) ==
    IF variantOf(p) \in DOMAIN buttonVariants
    THEN Lookup(buttonVariants, variantOf(p))
    ELSE Some(buttonVariants["primary"])

variantClasses(p) == Lookup(buttonVariants, variantOf(p))
sizeClasses(p) == Lookup(buttonSizes, sizeOf(p))

\* the override placed before the variant and size fragments
combinedClassesOverrideFirst(p) ==
    Trim(baseClasses \o <<SP>> \o classNameOf(p) \o <<SP>>
         \o ToStr(variantClasses(p)) \o <<SP>> \o ToStr(sizeClasses(p)))

combinedClasses(p) ==
    Trim(baseClasses \o <<SP>> \o ToStr(variantClasses(p)) \o <<SP>>
         \o ToStr(sizeClasses(p)) \o <<SP>> \o classNameOf(p))

\* `disabled && isLoading`
effectiveDisabledAnd(p) == p["disabled"] = Some(TRUE) /\ isLoadingOf(p)

\* `disabled` alone, isLoading forgotten
effectiveDisabledOnly(p) == p["disabled"] = Some(TRUE)

\* `disabled || isLoading`: the left operand when it is truthy, else the right
effectiveDisabled(p) ==
    IF p["disabled"] = Some(TRUE) THEN TRUE ELSE isLoadingOf(p)

\* onClick destructured and never passed on
restWithoutOnClick(p) ==
    [k \in PropKeys \ Destructured |-> IF k = "onClick" THEN Undefined ELSE p[k]]

\* only the event handlers passed on
restOnlyHandlers(p) ==
    [k \in PropKeys \ Destructured |-> IF k = "onClick" THEN p[k] ELSE Undefined]

\* onClick wrapped in a handler that catches what the caller's handler throws
restSwallowingHandler(p) ==
    [k \in PropKeys \ Destructured |->
        IF k = "onClick"
        THEN {[name |-> f.name, throws |-> Undefined] : f \in p[k]}
        ELSE p[k]]

\* disabled read from the props but left in the rest object
restKeepingDisabled(p) ==
    [k \in (PropKeys \ Destructured) \cup {"disabled"} |->
        IF k = "disabled" THEN p[k] = Some(TRUE) ELSE p[k]]

\* the rest object `...props`
restProps(p) == [k \in PropKeys \ Destructured |-> p[k]]

\* JSX attributes in source order: a later attribute or spread entry wins
JsxAttrs(explicit, spread) ==
    [k \in DOMAIN explicit \cup DOMAIN spread |->
        IF k \in DOMAIN spread THEN spread[k] ELSE explicit[k]]

Spinner == [tag |-> "svg", cls |-> Words(<<"w-4", "h-4", "mr-2", "animate-spin">>), text |-> ""]

\* the spinner shown whenever the button is disabled
childNodesSpinnerWhenDisabled(p) ==
    (IF effectiveDisabled(p) THEN <<Spinner>> ELSE <<>>) \o <<Val(p["children"])>>

\* `{isLoading && (<svg .../>)}` then `{children}`: false renders nothing
childNodes(p) ==
    (IF isLoadingOf(p) THEN <<Spinner>> ELSE <<>>) \o <<Val(p["children"])>>

\* a component that keeps a pressed state: once the rendered element has been
\* clicked, the next render adds a class
ButtonRemembering(p) ==
    [tag |-> "button",
     attrs |-> JsxAttrs([className |-> combinedClasses(p)
                            \o (IF events > 0 THEN <<SP, "pressed">> ELSE <<>>),
                         disabled |-> effectiveDisabled(p)],
                        restProps(p)),
     children |-> childNodes(p)]

Button(p) ==
    [tag |-> "button",
     attrs |-> JsxAttrs([className |-> combinedClasses(p),
                         disabled |-> effectiveDisabled(p)],
                        restProps(p)),
     children |-> childNodes(p)]

----------------------------------------------------------------------------
(* The props a caller can pass *)

Opt(S) == {Undefined} \cup {Some(v) : v \in S}

SeqsUpTo(S, n) == UNION {[1..k -> S] : k \in 0..n}

\* className strings: free-form text over one token and the space character
ClassAlphabet == {SP, "extra-token"}
ClassNameStrings == SeqsUpTo(ClassAlphabet, MaxClassLen)

\* the label of the tests, and an icon element that is not the spinner
ChildrenValues ==
    {[tag |-> "#text", cls |-> <<>>, text |-> "Click me"],
     [tag |-> "svg", cls |-> <<"icon">>, text |-> ""]}

\* caller-supplied click handlers: one that returns, one that throws
handleClick == [name |-> "handleClick", throws |-> Undefined]
failingClick == [name |-> "failingClick", throws |-> Some("boom")]
Callbacks == {handleClick, failingClick}

\* the values each prop takes; undefined stands for a prop left unset
PropValues(k) ==
    CASE k = "variant" -> Opt(VariantKind)
      [] k = "size" -> Opt(SizeKind)
      [] k = "isLoading" -> Opt(BOOLEAN)
      [] k = "disabled" -> Opt(BOOLEAN)
      [] k = "className" -> Opt(ClassNameStrings)
      [] k = "children" -> {Some(c) : c \in ChildrenValues}
      [] k = "onClick" -> Opt(Callbacks)
      [] k = "data-testid" -> Opt({"custom-button"})

MkProps(v, s, l, d, c, ch, oc, t) ==
    [k \in PropKeys |->
        CASE k = "variant" -> v
          [] k = "size" -> s
          [] k = "isLoading" -> l
          [] k = "disabled" -> d
          [] k = "className" -> c
          [] k = "children" -> ch
          [] k = "onClick" -> oc
          [] k = "data-testid" -> t]

AllProps ==
    {MkProps(v, s, l, d, c, ch, oc, t) :
        v \in PropValues("variant"), s \in PropValues("size"),
        l \in PropValues("isLoading"), d \in PropValues("disabled"),
        c \in PropValues("className"), ch \in PropValues("children"),
        oc \in PropValues("onClick"), t \in PropValues("data-testid")}

\* `<Button>Click me</Button>`: every prop but children left unset
BareProps ==
    MkProps(Undefined, Undefined, Undefined, Undefined, Undefined,
            Some([tag |-> "#text", cls |-> <<>>, text |-> "Click me"]),
            Undefined, Undefined)

\* first renders of the test suite: `<Button>`, `<Button onClick={handleClick}>`
\* and `<Button isLoading>`
MountProps ==
    {BareProps,
     [BareProps EXCEPT !["onClick"] = Some(handleClick)],
     [BareProps EXCEPT !["isLoading"] = Some(TRUE)]}

\* the values a re-render gives one prop (a Storybook control, a parent update)
UpdateValues(k) ==
    CASE k = "className" -> {Undefined, Some(<<"extra-token">>)}
      [] k = "children" -> {BareProps["children"]}
      [] OTHER -> PropValues(k)

----------------------------------------------------------------------------
(* The host: rendering and click dispatch *)

InitCommon ==
    /\ out = {}
    /\ mounted = {}
    /\ events = 0
    /\ calls = 0
    /\ hostErrors = <<>>
    /\ between = {}
    /\ buttonVariants = VariantTable
    /\ buttonSizes = SizeTable

\* no release config is being loaded
ReleaseIdle ==
    /\ NPM_TOKEN = Undefined
    /\ configFile = "none"
    /\ pc = "idle"
    /\ plugins = <<>>
    /\ exported = {}

\* cn is not being called
CnIdle ==
    /\ classes = <<>>
    /\ result = {}

\* render(<Button {...props}/>): the first render of the component
Mount ==
    /\ out = {}
    /\ out' = {Button(props)}
    /\ mounted' = {[props |-> props, out |-> Button(props)]}
    /\ UNCHANGED <<props, events, calls, hostErrors, between, buttonVariants, buttonSizes>>
    /\ UNCHANGED <<releaseVars, cnVars>>

\* a re-render of the mounted component with prop k set to v
Rerender(k, v) ==
    /\ out # {}
    /\ props' = [props EXCEPT ![k] = v]
    /\ out' = {Button(props')}
    /\ events' = 0
    /\ calls' = 0
    /\ hostErrors' = <<>>
    /\ between' = between \cup (IF events > 0 THEN {"click"} ELSE {})
                           \cup {"render" : m \in {m \in mounted : m.props # props}}
    /\ UNCHANGED <<mounted, buttonVariants, buttonSizes>>
    /\ UNCHANGED <<releaseVars, cnVars>>

\* fireEvent.click(button): the host delivers the event to the element's
\* onClick listener unless the element is disabled; what the listener throws
\* reaches the host's event boundary
Click ==
    /\ events < MaxEvents
    /\ \E el \in out :
        /\ events' = events + 1
        /\ IF el.attrs["disabled"] \/ el.attrs["onClick"] = Undefined
           THEN UNCHANGED <<calls, hostErrors>>
           ELSE LET f == Val(el.attrs["onClick"]) IN
                /\ calls' = calls + 1
                /\ hostErrors' = IF f.throws = Undefined THEN hostErrors
                                 ELSE Append(hostErrors, Val(f.throws))
    /\ UNCHANGED <<props, out, mounted, between, buttonVariants, buttonSizes>>
    /\ UNCHANGED <<releaseVars, cnVars>>

\* the component through its life: mounted, re-rendered, clicked
Init == props \in MountProps /\ InitCommon /\ ReleaseIdle /\ CnIdle

Next ==
    \/ Mount
    \/ \E k \in PropKeys : \E v \in UpdateValues(k) : Rerender(k, v)
    \/ Click

Spec == Init /\ [][Next]_vars

\* values that reach Button from callers that are not type-checked
InvalidVariants == {"neon", "constructor"}
InvalidSizes == {"huge"}

\* props with a variant or a size outside the enumeration; className may
\* repeat the tokens of a fragment
UntypedProps ==
    {[[[[BareProps EXCEPT !["variant"] = v] EXCEPT !["size"] = z]
            EXCEPT !["className"] = c] EXCEPT !["isLoading"] = l] :
        <<v, z>> \in {vz \in Opt(VariantKind \cup InvalidVariants)
                              \X Opt(SizeKind \cup InvalidSizes) :
                         vz[1] \in Opt(InvalidVariants) \ {Undefined}
                            \/ vz[2] \in Opt(InvalidSizes) \ {Undefined}},
        c \in {Undefined, Some(<<"extra-token">>), Some(VariantTable["primary"]),
                Some(SizeTable["medium"])},
        l \in Opt(BOOLEAN)}

\* Button rendered once with props that bypass the prop types
InitUntyped == props \in UntypedProps /\ InitCommon /\ ReleaseIdle /\ CnIdle

NextUntyped == Mount

SpecUntyped == InitUntyped /\ [][NextUntyped]_vars

\* Button as a function of its props: one render of each props object
InitRender == props \in AllProps /\ InitCommon /\ ReleaseIdle /\ CnIdle

NextRender == Mount

SpecRender == InitRender /\ [][NextRender]_vars

----------------------------------------------------------------------------
(* The release configs (src/unnamed/part_000, src/unnamed/part_001) *)

ConfigFiles == {"part_000", "part_001"}

CommitAnalyzer == "@semantic-release/commit-analyzer"
ReleaseNotes == "@semantic-release/release-notes-generator"
Changelog == "@semantic-release/changelog"
Github == "@semantic-release/github"
Npm == "@semantic-release/npm"

\* the array literal each file starts from
pluginsLiteral(file) ==
    IF file = "part_000"
    THEN <<CommitAnalyzer, ReleaseNotes, Github>>
    ELSE <<CommitAnalyzer, ReleaseNotes, Changelog, Github>>

\* the start index of part_000 pasted into part_001
spliceStartCopied(file) == 2

\* the start index each file passes to splice
spliceStart(file) == IF file = "part_000" THEN 2 ELSE 3

Min(a, b) == IF a < b THEN a ELSE b

\* Array.prototype.splice(start, deleteCount, ...items) for start >= 0: the
\* array after the call
Splice(arr, start, deleteCount, items) ==
    LET from == Min(start, Len(arr))
        del == Min(deleteCount, Len(arr) - from)
    IN SubSeq(arr, 1, from) \o items \o SubSeq(arr, from + del + 1, Len(arr))

\* the truth value of an environment variable: unset and "" are falsy, every
\* other string is truthy
Truthy(env) == env # Undefined /\ Val(env) # <<>>

\* the values of NPM_TOKEN: unset, or a string of characters
TokenAlphabet == {"0", "x"}
TokenValues == Opt(SeqsUpTo(TokenAlphabet, MaxTokenLen))

\* `const plugins = [...]`
DeclarePlugins ==
    /\ pc = "declare"
    /\ plugins' = pluginsLiteral(configFile)
    /\ pc' = "check"
    /\ UNCHANGED <<NPM_TOKEN, configFile, exported, buttonVars, cnVars>>

\* `if (process.env.NPM_TOKEN) { plugins.splice(i, 0, '@semantic-release/npm') }`
CheckToken ==
    /\ pc = "check"
    /\ plugins' = IF Truthy(NPM_TOKEN)
                  THEN Splice(plugins, spliceStart(configFile), 0, <<Npm>>)
                  ELSE plugins
    /\ pc' = "export"
    /\ UNCHANGED <<NPM_TOKEN, configFile, exported, buttonVars, cnVars>>

\* `module.exports = { branches: ['main'], plugins: plugins }`
Export ==
    /\ pc = "export"
    /\ exported' = {[branches |-> <<"main">>, plugins |-> plugins]}
    /\ pc' = "done"
    /\ UNCHANGED <<NPM_TOKEN, configFile, plugins, buttonVars, cnVars>>

\* semantic-release loads one of the config files under some environment
InitRelease ==
    /\ props = BareProps /\ InitCommon /\ CnIdle
    /\ NPM_TOKEN \in TokenValues
    /\ configFile \in ConfigFiles
    /\ pc = "declare"
    /\ plugins = <<>>
    /\ exported = {}

NextRelease == DeclarePlugins \/ CheckToken \/ Export

SpecRelease == InitRelease /\ [][NextRelease]_vars

----------------------------------------------------------------------------
(* cn (src/src/utils/index.ts) *)

\* JavaScript values cn may be given; str is the text of a string value
JsUndefined == [type |-> "undefined", str |-> <<>>]
JsNull == [type |-> "null", str |-> <<>>]
JsFalse == [type |-> "boolean", str |-> <<>>]
JsString(t) == [type |-> "string", str |-> t]

ArgValues ==
    {JsUndefined, JsNull, JsFalse,
     JsString(<<>>), JsString(<<"a">>), JsString(<<"b">>), JsString(<<SP>>)}

\* Boolean(x): of these values only a non-empty string is truthy
Boolean(x) == x.type = "string" /\ x.str # <<>>

\* what Array.prototype.join prints for one element: nothing for undefined
\* and null, String(x) otherwise
JoinText(x) ==
    CASE x.type \in {"undefined", "null"} -> <<>>
      [] x.type = "boolean" -> <<"false">>
      [] OTHER -> x.str

\* Array.prototype.join(sep)
RECURSIVE Join(_, _)
Join(arr, sep) ==
    IF arr = <<>> THEN <<>>
    ELSE IF Len(arr) = 1 THEN JoinText(arr[1])
    ELSE JoinText(arr[1]) \o sep \o Join(Tail(arr), sep)

\* the join without the filter
cnNoFilter(cls) == Join(cls, <<SP>>)

cn(cls) == Join(SelectSeq(cls, Boolean), <<SP>>)

\* cn(...classes) is called
CallCn ==
    /\ result = {}
    /\ result' = {cn(classes)}
    /\ UNCHANGED <<classes, buttonVars, releaseVars>>

InitCn ==
    /\ props = BareProps /\ InitCommon /\ ReleaseIdle
    /\ classes \in SeqsUpTo(ArgValues, MaxArgs)
    /\ result = {}

NextCn == CallCn

SpecCn == InitCn /\ [][NextCn]_vars

----------------------------------------------------------------------------
(* Claims *)

IsSet(k) == props[k] # Undefined
Is(k, v) == props[k] = Some(v)
Last(s) == s[Len(s)]
ClassTokens(el) == Tokens(el.attrs["className"])

\* C1: for every variant, size and className string, the class tokens of the
\* rendered button are those of the base classes, then of the variant's
\* fragment, then of the size's fragment, then of className, in that order;
\* when className has a token, the last token of the result is its last token.
C1_ClassOrder ==
    \A el \in out :
        (IsSet("variant") /\ Val(props["variant"]) \in VariantKind
            /\ IsSet("size") /\ Val(props["size"]) \in SizeKind /\ IsSet("className"))
        => LET override == Tokens(Val(props["className"])) IN
           /\ ClassTokens(el) =
                Tokens(baseClasses) \o Tokens(VariantTable[Val(props["variant"])])
                    \o Tokens(SizeTable[Val(props["size"])]) \o override
           /\ override # <<>> => Last(ClassTokens(el)) = Last(override)

C1_Witness ==
    \E el \in out :
        /\ Is("variant", "ghost") /\ Is("size", "large")
        /\ Is("className", <<SP, "extra-token", SP>>)
        /\ Last(ClassTokens(el)) = <<"extra-token">>

\* C2: the disabled attribute of the rendered button is TRUE exactly when the
\* disabled prop is true or the isLoading prop is true, whatever the other props.
C2_EffectiveDisabled ==
    \A el \in out :
        el.attrs["disabled"] = (Is("disabled", TRUE) \/ Is("isLoading", TRUE))

C2_Witness ==
    \E el \in out :
        ~ IsSet("disabled") /\ Is("isLoading", TRUE) /\ el.attrs["disabled"] = TRUE

\* C3: while the button is rendered with disabled or isLoading true, the
\* caller's onClick has been invoked zero times, however many clicks were
\* dispatched to it.
C3_NoCallWhileDisabled ==
    (out # {} /\ (Is("disabled", TRUE) \/ Is("isLoading", TRUE))) => calls = 0

C3_Witness ==
    /\ out # {}
    /\ Is("isLoading", TRUE) /\ ~ Is("disabled", TRUE)
    /\ Is("onClick", handleClick)
    /\ events = MaxEvents /\ calls = 0

\* C4: while the button is rendered with neither disabled nor isLoading true
\* and with an onClick, the callback has been invoked once for each click
\* dispatched: after n clicks, exactly n calls.
C4_OneCallPerClick ==
    (out # {} /\ ~ Is("disabled", TRUE) /\ ~ Is("isLoading", TRUE) /\ IsSet("onClick"))
        => calls = events

C4_Witness ==
    /\ out # {}
    /\ Is("disabled", FALSE) /\ ~ IsSet("isLoading")
    /\ Is("onClick", handleClick)
    /\ events = MaxEvents /\ calls = MaxEvents

\* C5: the spinner svg is among the children of the rendered button exactly
\* when isLoading is true, whatever the other props.
C5_SpinnerIffLoading ==
    \A el \in out : (Spinner \in Range(el.children)) <=> Is("isLoading", TRUE)

C5_Witness ==
    \E el \in out :
        /\ Is("isLoading", TRUE) /\ Is("disabled", FALSE)
        /\ el.children = <<Spinner, Val(props["children"])>>

\* C6: a button rendered with children only has as class string exactly the
\* base classes, a space, the primary fragment, a space and the medium
\* fragment, a disabled attribute of FALSE and no spinner.
C6_Defaults ==
    \A el \in out :
        (\A k \in PropKeys \ {"children"} : ~ IsSet(k))
        => /\ el.attrs["className"] =
                baseClasses \o <<SP>> \o VariantTable["primary"] \o <<SP>> \o SizeTable["medium"]
           /\ el.attrs["disabled"] = FALSE
           /\ el.children = <<Val(props["children"])>>

C6_Witness ==
    \E el \in out :
        /\ \A k \in PropKeys \ {"children"} : ~ IsSet(k)
        /\ Last(el.attrs["className"]) = "text-base"

\* C7: the variant table is defined on exactly the five variants and the size
\* table on exactly the three sizes, every entry has at least one token, and
\* two different keys of a table never have the same fragment.
C7_TablesTotalDistinct ==
    /\ DOMAIN buttonVariants = VariantKind
    /\ DOMAIN buttonSizes = SizeKind
    /\ LET vfrags == {Tokens(buttonVariants[v]) : v \in VariantKind}
           zfrags == {Tokens(buttonSizes[z]) : z \in SizeKind}
       IN /\ <<>> \notin vfrags \cup zfrags
          /\ Cardinality(vfrags) = Cardinality(VariantKind)
          /\ Cardinality(zfrags) = Cardinality(SizeKind)

C7_Witness ==
    \E el \in out :
        /\ Is("variant", "ghost") /\ Is("size", "small")
        /\ Range(Tokens(buttonVariants["ghost"])) \subseteq Range(ClassTokens(el))
        /\ ~ (Range(Tokens(buttonVariants["outline"])) \subseteq Range(ClassTokens(el)))

\* C8: every prop other than variant, size, isLoading, disabled, className and
\* children is an attribute of the rendered button under the same name and
\* with the same value.
C8_RestForwarded ==
    \A el \in out :
        \A k \in {"onClick", "data-testid"} :
            k \in DOMAIN el.attrs /\ el.attrs[k] = props[k]

C8_Witness ==
    \E el \in out :
        /\ Is("data-testid", "custom-button") /\ Is("onClick", failingClick)
        /\ el.attrs["data-testid"] = Some("custom-button")
        /\ el.attrs["onClick"] = Some(failingClick)

\* C9: a render with the props of the first render gives the element of the
\* first render, whatever renders and clicks came between, and the variant
\* and size tables are what they were at the start.
C9_Deterministic ==
    /\ buttonVariants = VariantTable
    /\ buttonSizes = SizeTable
    /\ \A m \in mounted : \A el \in out : props = m.props => el = m.out

C9_Witness ==
    \E m \in mounted : \E el \in out :
        /\ between = {"click", "render"}
        /\ props = m.props /\ el = m.out
        /\ Is("isLoading", TRUE)

\* C10: while the button is enabled and rendered with an onClick that throws,
\* every click dispatched has invoked the callback once and has put the error
\* it threw, as thrown, at the host's event boundary.
C10_FailurePropagates ==
    \A f \in props["onClick"] :
        (out # {} /\ ~ Is("disabled", TRUE) /\ ~ Is("isLoading", TRUE)
            /\ f.throws # Undefined)
        => /\ calls = events
           /\ hostErrors = [i \in 1..events |-> Val(f.throws)]

C10_Witness ==
    /\ out # {}
    /\ ~ IsSet("disabled") /\ Is("isLoading", FALSE)
    /\ Is("onClick", failingClick)
    /\ events = MaxEvents /\ hostErrors = [i \in 1..MaxEvents |-> "boom"]

\* the tokens of fragment frag are all among the class tokens of el
HasFragment(el, frag) == Range(Tokens(frag)) \subseteq Range(ClassTokens(el))

InvalidVariant == IsSet("variant") /\ Val(props["variant"]) \notin VariantKind
InvalidSize == IsSet("size") /\ Val(props["size"]) \notin SizeKind

\* C11 (as stated): with a variant outside the enumeration the class string
\* of the rendered button contains no variant fragment, and with a size
\* outside the enumeration it contains no size fragment.
C11_NoFragmentAtAll ==
    \A el \in out :
        /\ InvalidVariant => \A v \in VariantKind : ~ HasFragment(el, VariantTable[v])
        /\ InvalidSize => \A z \in SizeKind : ~ HasFragment(el, SizeTable[z])

\* C11 (amended): with a variant outside the enumeration the class string
\* contains a variant fragment only when className itself carries all the
\* tokens of that fragment, and likewise for a size outside the enumeration
\* and the size fragments: Button puts no default fragment in its place.
C11_NoCoercion ==
    \A el \in out :
        LET override == Range(Tokens(classNameOf(props))) IN
        /\ InvalidVariant =>
            \A v \in VariantKind :
                HasFragment(el, VariantTable[v])
                    => Range(Tokens(VariantTable[v])) \subseteq override
        /\ InvalidSize =>
            \A z \in SizeKind :
                HasFragment(el, SizeTable[z])
                    => Range(Tokens(SizeTable[z])) \subseteq override

C11_Witness ==
    \E el \in out :
        /\ Is("variant", "neon") /\ Is("size", "huge") /\ ~ IsSet("className")
        /\ ClassTokens(el) = Tokens(baseClasses) \o <<(<<"undefined">>), <<"undefined">>>>

\* C12: whatever the props, the className attribute of the rendered button is
\* the composed class string and its disabled attribute is (disabled or
\* isLoading): the object spread after them holds neither key, so no
\* pass-through attribute replaces them.
C12_ComputedAttrsWin ==
    \A el \in out :
        /\ DOMAIN restProps(props) \cap {"className", "disabled"} = {}
        /\ el.attrs["className"] = combinedClasses(props)
        /\ el.attrs["disabled"] = (Is("disabled", TRUE) \/ Is("isLoading", TRUE))

C12_Witness ==
    \E el \in out :
        /\ Is("className", <<"extra-token", SP, "extra-token">>)
        /\ Is("disabled", FALSE) /\ Is("isLoading", TRUE)
        /\ Is("data-testid", "custom-button") /\ Is("onClick", handleClick)
        /\ el.attrs["disabled"] = TRUE
        /\ Len(ClassTokens(el)) = Len(Tokens(baseClasses)) + 9

IndexOf(seq, x) == CHOOSE i \in DOMAIN seq : seq[i] = x
NotNpm(x) == x # Npm

\* C13: in both release config files the exported plugins list holds
\* '@semantic-release/npm' exactly when NPM_TOKEN is set to a non-empty value,
\* exactly once and immediately before '@semantic-release/github', and without
\* it the list is the file's original list in its original order.
C13_NpmOnlyWithToken ==
    \A ex \in exported :
        /\ (Npm \in Range(ex.plugins)) <=> (NPM_TOKEN # Undefined /\ Val(NPM_TOKEN) # <<>>)
        /\ Npm \in Range(ex.plugins) =>
            /\ Cardinality({i \in DOMAIN ex.plugins : ex.plugins[i] = Npm}) = 1
            /\ IndexOf(ex.plugins, Npm) + 1 \in DOMAIN ex.plugins
            /\ ex.plugins[IndexOf(ex.plugins, Npm) + 1] = Github
        /\ SelectSeq(ex.plugins, NotNpm) =
             (IF configFile = "part_000"
              THEN <<CommitAnalyzer, ReleaseNotes, Github>>
              ELSE <<CommitAnalyzer, ReleaseNotes, Changelog, Github>>)

C13_Witness ==
    \E ex \in exported :
        /\ configFile = "part_001"
        /\ NPM_TOKEN = Some(<<"0">>)
        /\ ex.plugins = <<CommitAnalyzer, ReleaseNotes, Changelog, Npm, Github>>

\* the truthy arguments of args: the strings that are not empty
IsKept(x) == x.type = "string" /\ Len(x.str) > 0

\* the text of the kept arguments, each followed by one space except the last
RECURSIVE KeptJoined(_)
KeptJoined(args) ==
    IF args = <<>> THEN <<>>
    ELSE IF ~ IsKept(Head(args)) THEN KeptJoined(Tail(args))
    ELSE IF \E i \in DOMAIN Tail(args) : IsKept(Tail(args)[i])
         THEN Head(args).str \o <<SP>> \o KeptJoined(Tail(args))
         ELSE Head(args).str

\* C14: cn returns the text of its truthy arguments (undefined, null, false
\* and "" dropped) in their order with exactly one space between consecutive
\* kept arguments, and the empty string when no argument is truthy.
C14_CnJoinsTruthy ==
    \A res \in result :
        /\ res = KeptJoined(classes)
        /\ (\A i \in DOMAIN classes : ~ IsKept(classes[i])) => res = <<>>

C14_Witness ==
    \E res \in result :
        /\ classes = <<JsFalse, JsString(<<"a">>), JsUndefined, JsString(<<"b">>)>>
               \/ classes = <<JsString(<<"a">>), JsNull, JsString(<<"b">>)>>
        /\ res = <<"a", SP, "b">>

====
